---- MODULE Spec2Model ----
(***************************************************************************)
(* Model of parse_pharmacy_roster.py: the record assembler                 *)
(* (extract_pharmacy_records, get_column_value), the address decomposer    *)
(* (parse_address) and the date normalizer (format_date).                  *)
(*                                                                         *)
(* Text is a TLA+ string; TLC evaluates Len, \o and SubSeq on strings, so  *)
(* a character is the one-character string Ch(s, i).  Positions are        *)
(* 1-based: Python's s[:k] is Sub(s, 1, k).                                *)
(***************************************************************************)
EXTENDS Integers, Sequences, FiniteSets, TLC

VARIABLES pc, pdf, records, address, result

vars == <<pc, pdf, records, address, result>>

(***************************************************************************)
(* Bounds of the checked inputs.                                           *)
(***************************************************************************)
\* most words of a generated street+city span
MaxWords == 3
\* most tokens of a generated document (all pages together)
MaxTokens == 3
\* most pages of a generated document
MaxPages == 2

(***************************************************************************)
(* Characters and the str methods the program uses.                        *)
(***************************************************************************)
Sub(s, m, n) == IF m >= 1 /\ n <= Len(s) /\ m <= n THEN SubSeq(s, m, n) ELSE ""

Ch(s, i) == Sub(s, i, i)

UpperSeq ==
  <<"A","B","C","D","E","F","G","H","I","J","K","L","M",
    "N","O","P","Q","R","S","T","U","V","W","X","Y","Z">>

LowerSeq ==
  <<"a","b","c","d","e","f","g","h","i","j","k","l","m",
    "n","o","p","q","r","s","t","u","v","w","x","y","z">>

UpperSet == {UpperSeq[i] : i \in 1..Len(UpperSeq)}

LowerSet == {LowerSeq[i] : i \in 1..Len(LowerSeq)}

DigitSet == {"0","1","2","3","4","5","6","7","8","9"}

\* \s of the re module and the characters str.strip and str.split drop
IsSpace(c) == c \in {" ", "\t", "\n", "\r", "\f"}

IsDigit(c) == c \in DigitSet

IsUpper(c) == c \in UpperSet

IsLower(c) == c \in LowerSet

IsAlpha(c) == IsUpper(c) \/ IsLower(c)

\* every character of s satisfies the class; vacuous for ""
AllDigits(s) == \A i \in 1..Len(s) : IsDigit(Ch(s, i))

\* str.isdigit: non-empty and all digits
isdigit(s) == Len(s) > 0 /\ AllDigits(s)

LowerCh(c) ==
  IF c \in UpperSet THEN LowerSeq[CHOOSE i \in 1..Len(UpperSeq) : UpperSeq[i] = c]
  ELSE c

RECURSIVE lower(_)
\* str.lower
lower(s) == IF Len(s) = 0 THEN "" ELSE LowerCh(Ch(s, 1)) \o lower(Sub(s, 2, Len(s)))

RECURSIVE WsRun(_, _)
\* length of the run of whitespace that starts at position i
WsRun(s, i) == IF i <= Len(s) /\ IsSpace(Ch(s, i)) THEN 1 + WsRun(s, i + 1) ELSE 0

RECURSIVE DigitRun(_, _)
\* length of the run of digits that starts at position i
DigitRun(s, i) == IF i <= Len(s) /\ IsDigit(Ch(s, i)) THEN 1 + DigitRun(s, i + 1) ELSE 0

RECURSIVE WordRun(_, _)
\* length of the run of non-whitespace that starts at position i
WordRun(s, i) == IF i <= Len(s) /\ ~IsSpace(Ch(s, i)) THEN 1 + WordRun(s, i + 1) ELSE 0

RECURSIVE rstrip(_)
rstrip(s) ==
  IF Len(s) > 0 /\ IsSpace(Ch(s, Len(s))) THEN rstrip(Sub(s, 1, Len(s) - 1)) ELSE s

\* str.strip()
strip(s) == LET r == rstrip(s) IN Sub(r, 1 + WsRun(r, 1), Len(r))

RECURSIVE rstrip_punct(_)
\* str.rstrip(",.")
rstrip_punct(s) ==
  IF Len(s) > 0 /\ Ch(s, Len(s)) \in {",", "."}
  THEN rstrip_punct(Sub(s, 1, Len(s) - 1)) ELSE s

RECURSIVE SplitFrom(_, _)
SplitFrom(s, i) ==
  LET j == i + WsRun(s, i)
      n == WordRun(s, j)
  IN IF n = 0 THEN <<>> ELSE <<Sub(s, j, j + n - 1)>> \o SplitFrom(s, j + n)

\* str.split(): the whitespace-separated words, none empty
split(s) == SplitFrom(s, 1)

RECURSIVE join(_, _)
\* sep.join(ws)
join(sep, ws) ==
  IF Len(ws) = 0 THEN ""
  ELSE IF Len(ws) = 1 THEN ws[1]
  ELSE ws[1] \o sep \o join(sep, Tail(ws))

\* the least element of a non-empty set of integers
Least(S) == CHOOSE x \in S : \A y \in S : x <= y

\* position of the first occurrence of pat in s, 0 if none (str.find + 1)
find(s, pat) ==
  LET P == {i \in 1..(Len(s) - Len(pat) + 1) : Sub(s, i, i + Len(pat) - 1) = pat}
  IN IF P = {} THEN 0 ELSE Least(P)

(***************************************************************************)
(* parse_address                                                           *)
(***************************************************************************)
STREET_SUFFIXES ==
  {"st", "st.", "street", "ave", "ave.", "avenue", "rd", "rd.", "road",
   "dr", "dr.", "drive", "ln", "ln.", "lane", "ct", "ct.", "court",
   "blvd", "blvd.", "boulevard", "way", "pl", "pl.", "place", "cir",
   "cir.", "circle", "hwy", "hwy.", "highway", "pkwy", "pkwy.", "parkway",
   "ter", "ter.", "terrace", "trl", "trl.", "trail", "ste", "suite",
   "unit", "apt", "apt.", "floor", "fl", "fl.", "room", "rm", "rm.",
   "#"}

\* the words after which a unit designator is taken into the street
UNIT_WORDS ==
  {"ste", "suite", "unit", "apt", "room", "rm", "floor", "fl", "hwy",
   "highway", "route", "rt"}

\* $ of the re module: the end of the string, or just before a final line break
AtEnd(s, e) == e = Len(s) \/ (e = Len(s) - 1 /\ Ch(s, Len(s)) = "\n")

NoMatch == [start |-> 0]

\* state_zip_at, were group 2 to end after the five digits: (\d{5})(?:-\d{4})?
state_zip_at_zip5(s, i) ==
  LET a == WsRun(s, i)
      p == i + a
      b == WsRun(s, p + 2)
      q == p + 2 + b
  IN IF a >= 1 /\ IsUpper(Ch(s, p)) /\ IsUpper(Ch(s, p + 1)) /\ b >= 1
        /\ DigitRun(s, q) >= 5
        /\ \/ Ch(s, q + 5) = "-" /\ DigitRun(s, q + 6) >= 4 /\ AtEnd(s, q + 9)
           \/ AtEnd(s, q + 4)
     THEN [start |-> i, state |-> Sub(s, p, p + 1), zip |-> Sub(s, q, q + 4)]
     ELSE NoMatch

\* r"\s+([A-Z]{2})\s+(\d{5}(?:-\d{4})?)$" tried at position i.  Each \s+ is
\* followed by a non-space character, so it takes the whole run of spaces.
state_zip_at(s, i) ==
  LET a == WsRun(s, i)
      p == i + a
      b == WsRun(s, p + 2)
      q == p + 2 + b
  IN IF a >= 1 /\ IsUpper(Ch(s, p)) /\ IsUpper(Ch(s, p + 1)) /\ b >= 1
        /\ DigitRun(s, q) >= 5
     THEN IF Ch(s, q + 5) = "-" /\ DigitRun(s, q + 6) >= 4 /\ AtEnd(s, q + 9)
          THEN [start |-> i, state |-> Sub(s, p, p + 1), zip |-> Sub(s, q, q + 9)]
          ELSE IF AtEnd(s, q + 4)
          THEN [start |-> i, state |-> Sub(s, p, p + 1), zip |-> Sub(s, q, q + 4)]
          ELSE NoMatch
     ELSE NoMatch

\* state_zip_pattern.search(address): the leftmost match
state_zip_pattern(s) ==
  LET M == {i \in 1..Len(s) : state_zip_at(s, i).start # 0}
  IN IF M = {} THEN NoMatch ELSE state_zip_at(s, Least(M))

\* r"\s+(ATTN|Attn:?|MC\s*\d)" with re.IGNORECASE tried at position i
attn_mc_at(s, i) ==
  LET a == WsRun(s, i)
      p == i + a
  IN /\ a >= 1
     /\ \/ lower(Sub(s, p, p + 3)) = "attn"
        \/ /\ lower(Sub(s, p, p + 1)) = "mc"
           /\ IsDigit(Ch(s, p + 2 + WsRun(s, p + 2)))

\* re.search(...).start() + 1 of the mail-routing marker, 0 if there is none
attn_mc_match(s) ==
  LET M == {i \in 1..Len(s) : attn_mc_at(s, i)}
  IN IF M = {} THEN 0 ELSE Least(M)

\* "." of the re module matches anything but a line break
NoLineBreak(s) == \A i \in 1..Len(s) : Ch(s, i) # "\n"

\* r"^(.*?)\s*((?:PO\s+)?Box\s+\d+)\s+(.+)$" with re.IGNORECASE, group 1 being
\* the first n characters.  \s* is followed by a letter and so takes the whole
\* run of spaces; so do the \s+ before the digits and the one after them, and
\* \d+ takes the whole run of digits.  "PO" is tried before "Box".
box_at(s, n) ==
  LET p == n + WsRun(s, n + 1) + 1
      hasPO == lower(Sub(s, p, p + 1)) = "po" /\ WsRun(s, p + 2) >= 1
                /\ lower(Sub(s, p + 2 + WsRun(s, p + 2), p + 4 + WsRun(s, p + 2))) = "box"
      viaPO == p + 2 + WsRun(s, p + 2)
      tail(bx) ==
        LET c == WsRun(s, bx + 3)
            d == DigitRun(s, bx + 3 + c)
            e == bx + 3 + c + d
            f == WsRun(s, e)
        IN IF c >= 1 /\ d >= 1 /\ f >= 1 /\ e + f <= Len(s)
              /\ NoLineBreak(Sub(s, e + f, Len(s)))
           THEN [start |-> p, g1 |-> Sub(s, 1, n), g2 |-> Sub(s, p, e - 1),
                 g3 |-> Sub(s, e + f, Len(s))]
           ELSE NoMatch
  IN IF ~NoLineBreak(Sub(s, 1, n)) THEN NoMatch
     ELSE IF hasPO /\ tail(viaPO).start # 0 THEN tail(viaPO)
     ELSE IF lower(Sub(s, p, p + 2)) = "box" THEN tail(p)
     ELSE NoMatch

\* box_pattern.match(street_city): group 1 is lazy, the shortest prefix wins
box_pattern(s) ==
  LET M == {n \in 0..Len(s) : box_at(s, n).start # 0}
  IN IF M = {} THEN NoMatch ELSE box_at(s, Least(M))

\* re.match(r"^[A-Z][a-z]+$", word)
IsCapitalized(w) ==
  /\ Len(w) >= 2
  /\ IsUpper(Ch(w, 1))
  /\ \A i \in 2..Len(w) : IsLower(Ch(w, i))

\* re.match(r"^(#?\d+[A-Za-z]?|[A-Za-z])$", word)
IsUnitDesignator(w) ==
  LET h == IF Ch(w, 1) = "#" THEN 1 ELSE 0
      d == DigitRun(w, h + 1)
  IN \/ Len(w) = 1 /\ IsAlpha(Ch(w, 1))
     \/ /\ d >= 1
        /\ \/ h + d = Len(w)
           \/ h + d + 1 = Len(w) /\ IsAlpha(Ch(w, Len(w)))

RECURSIVE last_capitalized(_, _)
\* for word in reversed(words): the first simple capitalized word, else words[-1]
last_capitalized(words, i) ==
  IF i = 0 THEN words[Len(words)]
  ELSE IF IsCapitalized(words[i]) THEN words[i]
  ELSE last_capitalized(words, i - 1)

RECURSIVE street_end_idx_first(_, _, _)
\* street_end_idx, were the first boundary found to stand (first match wins)
street_end_idx_first(words, i, idx) ==
  IF i > Len(words) THEN idx
  ELSE LET word_lower == rstrip_punct(lower(words[i]))
           a == IF word_lower \in STREET_SUFFIXES /\ idx = 0 THEN i ELSE idx
           b == IF word_lower \in UNIT_WORDS /\ i + 1 <= Len(words)
                   /\ IsUnitDesignator(words[i + 1]) /\ idx = 0
                THEN i + 1 ELSE a
       IN street_end_idx_first(words, i + 1, b)

RECURSIVE street_end_idx(_, _, _)
\* the loop over enumerate(words) from word i on, idx being street_end_idx so
\* far; indices are 1-based and 0 stands for Python's -1
street_end_idx(words, i, idx) ==
  IF i > Len(words) THEN idx
  ELSE LET word_lower == rstrip_punct(lower(words[i]))
           a == IF word_lower \in STREET_SUFFIXES THEN i ELSE idx
           b == IF word_lower \in UNIT_WORDS /\ i + 1 <= Len(words)
                   /\ IsUnitDesignator(words[i + 1])
                THEN i + 1 ELSE a
       IN street_end_idx(words, i + 1, b)

\* lines 121-148: the street-suffix scan and its fallback
suffix_scan(street_city) ==
  LET words == split(street_city)
      idx == street_end_idx(words, 1, 0)
  IN IF idx >= 1 /\ idx < Len(words)
     THEN [street |-> join(" ", SubSeq(words, 1, idx)),
           city |-> join(" ", SubSeq(words, idx + 1, Len(words)))]
     ELSE IF Len(words) > 1
     THEN [street |-> join(" ", SubSeq(words, 1, Len(words) - 1)),
           city |-> words[Len(words)]]
     ELSE [street |-> "", city |-> street_city]

\* lines 104-119: the PO Box strategy, m being a match of box_pattern
box_result(m) ==
  LET street_part == strip(m.g1)
  IN [street |-> IF street_part # "" THEN street_part \o " " \o m.g2 ELSE m.g2,
      city |-> strip(m.g3)]

\* lines 87-102: the mail-routing strategy, k being the marker's position
attn_result(street_city, k) ==
  LET words == split(street_city)
  IN [street |-> strip(Sub(street_city, 1, k - 1)),
      city |-> last_capitalized(words, Len(words))]

\* street_and_city, were the PO Box strategy tried before the mail-routing one
street_and_city_box_first(street_city) ==
  LET k == attn_mc_match(street_city)
      bm == box_pattern(street_city)
  IN IF bm.start # 0 THEN box_result(bm)
     ELSE IF k # 0 THEN attn_result(street_city, k)
     ELSE suffix_scan(street_city)

\* lines 84-148: street and city from the span before the state and zip
street_and_city(street_city) ==
  LET k == attn_mc_match(street_city)
      bm == box_pattern(street_city)
  IN IF k # 0 THEN attn_result(street_city, k)
     ELSE IF bm.start # 0 THEN box_result(bm)
     ELSE suffix_scan(street_city)

\* parse_address, were an address without state and zip stripped before it
\* is returned as the street
parse_address_stripping(a) ==
  LET match == state_zip_pattern(a)
  IN IF a = "" THEN [street |-> "", city |-> "", state |-> "", zip |-> ""]
     ELSE IF match.start = 0
     THEN [street |-> strip(a), city |-> "", state |-> "", zip |-> ""]
     ELSE LET sc == street_and_city(strip(Sub(a, 1, match.start - 1)))
          IN [street |-> sc.street, city |-> sc.city,
              state |-> match.state, zip |-> match.zip]

parse_address(a) ==
  LET match == state_zip_pattern(a)
  IN IF a = "" THEN [street |-> "", city |-> "", state |-> "", zip |-> ""]
     ELSE IF match.start = 0
     THEN [street |-> a, city |-> "", state |-> "", zip |-> ""]
     ELSE LET sc == street_and_city(strip(Sub(a, 1, match.start - 1)))
          IN [street |-> sc.street, city |-> sc.city,
              state |-> match.state, zip |-> match.zip]

(***************************************************************************)
(* format_date                                                             *)
(***************************************************************************)
DigitSeq == <<"0","1","2","3","4","5","6","7","8","9">>

DigitValue(c) == (CHOOSE i \in 1..Len(DigitSeq) : DigitSeq[i] = c) - 1

RECURSIVE ToInt(_)
\* int(s) of a string of digits
ToInt(s) ==
  IF Len(s) = 0 THEN 0
  ELSE 10 * ToInt(Sub(s, 1, Len(s) - 1)) + DigitValue(Ch(s, Len(s)))

IsLeap(y) == (y % 4 = 0 /\ y % 100 # 0) \/ y % 400 = 0

DaysIn(m, y) ==
  IF m = 2 THEN (IF IsLeap(y) THEN 29 ELSE 28)
  ELSE IF m \in {4, 6, 9, 11} THEN 30 ELSE 31

\* r"\d{2}/\d{2}/\d{4}" tried at position i
date_at(s, i) ==
  /\ DigitRun(s, i) >= 2 /\ Ch(s, i + 2) = "/"
  /\ DigitRun(s, i + 3) >= 2 /\ Ch(s, i + 5) = "/"
  /\ DigitRun(s, i + 6) >= 4

\* date_pattern.search(s).group(), and date_pattern.findall(s)[0]; "" if none
date_pattern(s) ==
  LET M == {i \in 1..Len(s) : date_at(s, i)}
  IN IF M = {} THEN "" ELSE Sub(s, Least(M), Least(M) + 9)

RECURSIVE lstrip_zeros(_)
lstrip_zeros(s) ==
  IF Len(s) > 1 /\ Ch(s, 1) = "0" THEN lstrip_zeros(Sub(s, 2, Len(s))) ELSE s

\* date_str is "" or a match of date_pattern (the only values the program
\* passes).  strptime raises ValueError for a month, day or year out of range;
\* strftime("%Y") of the C library writes the year without leading zeros.
format_date(date_str) ==
  LET m == ToInt(Sub(date_str, 1, 2))
      d == ToInt(Sub(date_str, 4, 5))
      y == ToInt(Sub(date_str, 7, 10))
  IN IF date_str = "" THEN ""
     ELSE IF y >= 1 /\ m >= 1 /\ m <= 12 /\ d >= 1 /\ d <= DaysIn(m, y)
     THEN lstrip_zeros(Sub(date_str, 7, 10)) \o "-" \o Sub(date_str, 1, 2)
          \o "-" \o Sub(date_str, 4, 5)
     ELSE date_str

(***************************************************************************)
(* extract_pharmacy_records                                                *)
(***************************************************************************)
\* the dict COLUMNS in its insertion order
COLUMNS ==
  <<[name |-> "license_no",    x_min |-> 0,   x_max |-> 90],
    [name |-> "license_type",  x_min |-> 90,  x_max |-> 250],
    [name |-> "licensee_name", x_min |-> 250, x_max |-> 375],
    [name |-> "dba",           x_min |-> 375, x_max |-> 495],
    [name |-> "address",       x_min |-> 495, x_max |-> 640],
    [name |-> "ssn_fein",      x_min |-> 640, x_max |-> 715],
    [name |-> "dates",         x_min |-> 715, x_max |-> 800]>>

\* COLUMNS[name]
Column(name) == COLUMNS[CHOOSE i \in 1..Len(COLUMNS) : COLUMNS[i].name = name]

InColumn(w, col_range) == col_range.x_min <= w.x0 /\ w.x0 < col_range.x_max

RECURSIVE Texts(_)
Texts(words) == IF Len(words) = 0 THEN <<>> ELSE <<words[1].text>> \o Texts(Tail(words))

RECURSIVE InsertByX0(_, _)
InsertByX0(w, sorted) ==
  IF Len(sorted) = 0 THEN <<w>>
  ELSE IF w.x0 < sorted[1].x0 THEN <<w>> \o sorted
  ELSE <<sorted[1]>> \o InsertByX0(w, Tail(sorted))

RECURSIVE SortByX0(_)
SortByX0(words) ==
  IF Len(words) = 0 THEN <<>>
  ELSE InsertByX0(words[Len(words)], SortByX0(SubSeq(words, 1, Len(words) - 1)))

\* get_column_value, were it to order the column's words by x0
get_column_value_by_x0(words, col_range) ==
  join(" ", Texts(SortByX0(SelectSeq(words, LAMBDA w : InColumn(w, col_range)))))

get_column_value(words, col_range) ==
  LET col_words == SelectSeq(words, LAMBDA w : InColumn(w, col_range))
  IN join(" ", Texts(col_words))

\* the first column of COLUMNS that holds x0, "" for None
col_name(x0) ==
  LET M == {i \in 1..Len(COLUMNS) : COLUMNS[i].x_min <= x0 /\ x0 < COLUMNS[i].x_max}
  IN IF M = {} THEN "" ELSE COLUMNS[Least(M)].name

header_cutoff(page_number) == IF page_number = 1 THEN 130 ELSE 50

content_words(words, page_number) ==
  SelectSeq(words, LAMBDA w : w.top >= header_cutoff(page_number))

IsRecordStart(w) == InColumn(w, Column("license_no")) /\ isdigit(w.text)

RECURSIVE Tops(_)
Tops(words) == IF Len(words) = 0 THEN <<>> ELSE <<words[1].top>> \o Tops(Tail(words))

RECURSIVE Insert(_, _)
Insert(x, sorted) ==
  IF Len(sorted) = 0 THEN <<x>>
  ELSE IF x <= sorted[1] THEN <<x>> \o sorted
  ELSE <<sorted[1]>> \o Insert(x, Tail(sorted))

\* list.sort() left out: the tops in stream order
Sort_omitted(xs) == xs

RECURSIVE Sort(_)
\* list.sort() of numbers
Sort(xs) == IF Len(xs) = 0 THEN <<>> ELSE Insert(xs[1], Sort(Tail(xs)))

\* lines 178-186: the tops of the record-start words, ascending
record_starts(content) == Sort(Tops(SelectSeq(content, IsRecordStart)))

\* lines 189-200: the words of record i; the last record has no end boundary
record_words(content, starts, i) ==
  SelectSeq(content, LAMBDA w :
    /\ starts[i] - 2 <= w.top
    /\ (i + 1 <= Len(starts) => w.top < starts[i + 1]))

first_line_words(rwords, start_top) ==
  SelectSeq(rwords, LAMBDA w : w.top < start_top + 5)

continuation_words(rwords, start_top) ==
  SelectSeq(rwords, LAMBDA w : w.top >= start_top + 5)

\* lines 211-232: the record built from the first line
first_line_record(flw) ==
  [license_no    |-> get_column_value(flw, Column("license_no")),
   license_type  |-> get_column_value(flw, Column("license_type")),
   licensee_name |-> get_column_value(flw, Column("licensee_name")),
   dba           |-> get_column_value(flw, Column("dba")),
   address       |-> get_column_value(flw, Column("address")),
   ssn_fein      |-> get_column_value(flw, Column("ssn_fein")),
   issue_date    |-> date_pattern(get_column_value(flw, Column("dates"))),
   exp_date      |-> ""]

\* merge_word without the "not record['dba']" guard: every dba word is appended
merge_word_unguarded(record, word) ==
  LET c == col_name(word.x0)
  IN IF c = "address"
     THEN [record EXCEPT !.address = @ \o " " \o word.text]
     ELSE IF c = "dba"
     THEN [record EXCEPT !.dba = IF @ # "" THEN @ \o " " \o word.text ELSE word.text]
     ELSE IF c = "dates" /\ date_pattern(word.text) # "" /\ record.exp_date = ""
     THEN [record EXCEPT !.exp_date = date_pattern(word.text)]
     ELSE record

\* lines 236-253: one continuation word merged into the record
merge_word(record, word) ==
  LET c == col_name(word.x0)
  IN IF c = "address"
     THEN [record EXCEPT !.address = @ \o " " \o word.text]
     ELSE IF c = "dba" /\ record.dba = ""
     THEN [record EXCEPT !.dba = word.text]
     ELSE IF c = "dates" /\ date_pattern(word.text) # "" /\ record.exp_date = ""
     THEN [record EXCEPT !.exp_date = date_pattern(word.text)]
     ELSE record

RECURSIVE merge_continuation(_, _)
\* line 235: for word in continuation_words
merge_continuation(record, cws) ==
  IF Len(cws) = 0 THEN record
  ELSE merge_continuation(merge_word(record, cws[1]), Tail(cws))

\* lines 255-260: whitespace collapsed, the footer cut off
clean_address(a) ==
  LET joined == join(" ", split(a))
      k == find(joined, "Total Licenses:")
  IN IF k # 0 THEN strip(Sub(joined, 1, k - 1)) ELSE joined

\* lines 255-271: the cleaned address, its parts, the dates reformatted
finish_record(record) ==
  LET a == clean_address(record.address)
      addr_parts == parse_address(a)
  IN [license_no    |-> record.license_no,
      license_type  |-> record.license_type,
      licensee_name |-> record.licensee_name,
      dba           |-> record.dba,
      address       |-> a,
      ssn_fein      |-> record.ssn_fein,
      issue_date    |-> format_date(record.issue_date),
      exp_date      |-> format_date(record.exp_date),
      street        |-> addr_parts.street,
      city          |-> addr_parts.city,
      state         |-> addr_parts.state,
      zip           |-> addr_parts.zip]

\* lines 189-253: record i of a page as accumulated from its words, before
\* the address is cleaned and parsed and the dates are reformatted
raw_record(content, starts, i) ==
  LET rwords == record_words(content, starts, i)
  IN merge_continuation(first_line_record(first_line_words(rwords, starts[i])),
                        continuation_words(rwords, starts[i]))

\* lines 189-273: record i of a page
page_record(content, starts, i) == finish_record(raw_record(content, starts, i))

\* lines 169-273: the records of one page
page_records(words, page_number) ==
  LET content == content_words(words, page_number)
      starts == record_starts(content)
  IN [i \in 1..Len(starts) |-> page_record(content, starts, i)]

RECURSIVE extract_from(_, _)
\* line 168: for page in pdf.pages, from page p on
extract_from(pages, p) ==
  IF p > Len(pages) THEN <<>>
  ELSE page_records(pages[p], p) \o extract_from(pages, p + 1)

extract_pharmacy_records(pages) == extract_from(pages, 1)

(***************************************************************************)
(* The checked inputs.                                                     *)
(***************************************************************************)
Tok(text, x0, top) == [text |-> text, x0 |-> x0, top |-> top]

\* The words a page may carry.  Tops: 129 is header on page 1 and content on
\* later pages; 140 and 146 are two row tops; 145 lies in the continuation
\* band of a row at 140 and within the start tolerance of a row at 146; for a
\* row at 129 the words at 140 and below are continuation.
Tokens ==
  { Tok("1001", 10, 140), Tok("1003", 40, 140), Tok("1002", 10, 146),
    Tok("9", 10, 129), Tok("Lic", 10, 140),
    Tok("Rx", 380, 140), Tok("Co", 400, 145),
    Tok("12", 500, 140), Tok("Elm", 520, 140),
    Tok("Total", 500, 145), Tok("Licenses:", 520, 145),
    Tok("01/02/2024", 720, 140) }

\* page p of the stream words cut at cut[0] = 0 <= cut[1] <= ... <= cut[MaxPages]
Document(words, cut) ==
  [p \in 1..MaxPages |-> SubSeq(words, cut[p - 1] + 1, cut[p])]

\* no page carries the same word (text and position) twice
Distinct(doc) ==
  \A p \in 1..Len(doc) : \A j, k \in 1..Len(doc[p]) : doc[p][j] = doc[p][k] => j = k

\* the ways to deal n words in stream order to MaxPages pages (a page may be
\* empty)
Cuts(n) ==
  { c \in [0..MaxPages -> 0..n] :
      /\ c[0] = 0 /\ c[MaxPages] = n
      /\ \A p \in 1..MaxPages : c[p - 1] <= c[p] }

\* words of a street+city span; "" makes a doubled separator
Vocabulary ==
  {"12", "Main", "St.", "Ste", "Rt", "A", "#", "Attn:", "MC", "Box", "PO",
   "Omaha", ""}

\* what follows the span
Tails ==
  {"", " NE 68501", "\tIA  68501-1234", " ne 68501", " NE 68501-12",
   " NE 68501\n"}

(***************************************************************************)
(* The state machines.  pc is "start" before the call and "done" after it. *)
(***************************************************************************)
NoResult == [street |-> "", city |-> "", state |-> "", zip |-> ""]

\* the document is at hand (main, line 307) and nothing is extracted yet: any
\* document of at most MaxTokens words on MaxPages pages, the words of a page
\* distinct
Init ==
  /\ pc = "start"
  /\ \E n \in 0..MaxTokens :
       \E cut \in Cuts(n) :
         \E words \in [1..n -> Tokens] :
           /\ Distinct(Document(words, cut))
           /\ pdf = Document(words, cut)
  /\ records = <<>>
  /\ address = ""
  /\ result = NoResult

\* records = extract_pharmacy_records(pdf_path)
Extract ==
  /\ pc = "start"
  /\ pc' = "done"
  /\ records' = extract_pharmacy_records(pdf)
  /\ UNCHANGED <<pdf, address, result>>

Next == Extract

Spec == Init /\ [][Next]_vars

\* parse_address is about to be called on address: at most MaxWords words of
\* Vocabulary joined by single spaces and followed by one of Tails
InitAddr ==
  /\ pc = "start"
  /\ \E n \in 0..MaxWords :
       \E ws \in [1..n -> Vocabulary] :
         \E t \in Tails : address = join(" ", ws) \o t
  /\ result = NoResult
  /\ pdf = <<>>
  /\ records = <<>>

\* result = parse_address(address)
ParseAddress ==
  /\ pc = "start"
  /\ pc' = "done"
  /\ result' = parse_address(address)
  /\ UNCHANGED <<pdf, records, address>>

NextAddr == ParseAddress

SpecAddr == InitAddr /\ [][NextAddr]_vars

(***************************************************************************)
(* The rows of pdf, read off the token stream by position (the claims      *)
(* below are stated with these, not with the operators of the model).      *)
(***************************************************************************)
Word(p, k) == pdf[p][k]

InCol(w, name) == Column(name).x_min <= w.x0 /\ w.x0 < Column(name).x_max

\* the positions of the content words of page p
Content(p) == {k \in 1..Len(pdf[p]) : Word(p, k).top >= header_cutoff(p)}

\* the positions of the row-start words of page p: the content words in the
\* license_no column whose text is all digits
RowStarts(p) ==
  LET lo == Column("license_no").x_min
      hi == Column("license_no").x_max
  IN {k \in Content(p) :
        lo <= Word(p, k).x0 /\ Word(p, k).x0 < hi /\ isdigit(Word(p, k).text)}

RowCount(p) == Cardinality(RowStarts(p))

\* the i-th smallest top among the tops of the words at S, equal tops counted
\* apart
NthTop(p, S, i) ==
  CHOOSE t \in {Word(p, k).top : k \in S} :
    /\ Cardinality({k \in S : Word(p, k).top < t}) < i
    /\ i <= Cardinality({k \in S : Word(p, k).top <= t})

RECURSIVE Offset(_)
\* the number of row starts on the pages before page p
Offset(p) == IF p <= 1 THEN 0 ELSE Offset(p - 1) + RowCount(p - 1)

\* row i of page p: its top, whether it is the last of the page, and the top
\* of the next row if it is not
Row(p, S, i) ==
  [p |-> p, i |-> i, top |-> NthTop(p, S, i), last |-> i = Cardinality(S),
   next |-> IF i = Cardinality(S) THEN 0 ELSE NthTop(p, S, i + 1)]

\* the rows of the document
Rows ==
  UNION { LET S == RowStarts(p) IN { Row(p, S, i) : i \in 1..Cardinality(S) }
          : p \in 1..Len(pdf) }

\* the record emitted for row r, records being emitted in page order and by
\* ascending row top
Rec(r) == records[Offset(r.p) + r.i]

\* a word at top lies in the extent of row r: [top - 2, next top)
InExtent(r, top) == r.top - 2 <= top /\ (r.last \/ top < r.next)

\* the positions of the content words of row r in column name: of its first
\* line (top < row top + 5) or of its continuation (top >= row top + 5)
RowWords(r, name, firstLine) ==
  LET lo == Column(name).x_min
      hi == Column(name).x_max
  IN {k \in Content(r.p) :
        LET w == pdf[r.p][k]
        IN /\ InExtent(r, w.top)
           /\ (w.top < r.top + 5) = firstLine
           /\ lo <= w.x0 /\ w.x0 < hi}

RECURSIVE StreamFrom(_, _, _)
\* the words of page p at the positions K from k on, in stream order
StreamFrom(p, K, k) ==
  IF k > Len(pdf[p]) THEN <<>>
  ELSE (IF k \in K THEN <<Word(p, k)>> ELSE <<>>) \o StreamFrom(p, K, k + 1)

\* the first-line words of row r in column name, in stream order
FirstLineOf(r, name) ==
  LET K == RowWords(r, name, TRUE) IN StreamFrom(r.p, K, 1)

\* the continuation words of row r in column name, in stream order
ContinuationOf(r, name) ==
  LET K == RowWords(r, name, FALSE) IN StreamFrom(r.p, K, 1)

\* the words of page p the model gathers for its i-th record (record_words)
Gathered(p, i) ==
  LET content == content_words(pdf[p], p)
  IN record_words(content, record_starts(content), i)

\* the record of row r after its first line (lines 211-226)
FirstLineRecord(r) ==
  first_line_record(first_line_words(Gathered(r.p, r.i), r.top))

\* the address of row r as accumulated, before it is cleaned
RawAddress(r) ==
  LET content == content_words(pdf[r.p], r.p)
  IN raw_record(content, record_starts(content), r.i).address

\* the columns a record takes from its first line by get_column_value
FirstLineColumns ==
  {"license_no", "license_type", "licensee_name", "dba", "address", "ssn_fein"}

\* the columns no continuation word changes
FixedColumns == {"license_no", "license_type", "licensee_name", "ssn_fein"}

\* text is one of the whitespace-separated words of s
HasWord(s, text) == LET ws == split(s) IN \E j \in 1..Len(ws) : ws[j] = text

(***************************************************************************)
(* C1.  Each page yields exactly as many records as it has row-start words *)
(* (content words in the license_no column whose text is all digits), none *)
(* if it has none; the pages' runs follow each other in page order, and    *)
(* within a page the i-th record is the one of the i-th smallest row top:  *)
(* its license_no is made of the license_no words of that row's first      *)
(* line.                                                                   *)
(***************************************************************************)
C1_RecordsPerPage ==
  pc = "done" =>
    /\ Len(records) = Offset(Len(pdf) + 1)
    /\ \A r \in Rows :
         Rec(r).license_no = join(" ", Texts(FirstLineOf(r, "license_no")))

\* two pages with rows, the first with two rows that the stream lists lower
\* row first
C1_Witness ==
  /\ pc = "done"
  /\ Len(pdf) >= 2
  /\ RowCount(1) = 2 /\ RowCount(2) >= 1
  /\ \E k1 \in RowStarts(1), k2 \in RowStarts(1) :
       k1 < k2 /\ Word(1, k1).top > Word(1, k2).top
  /\ Len(records) = 3
  /\ records[1].license_no # records[2].license_no

(***************************************************************************)
(* C2.  Every emitted record has a non-empty license_no.                   *)
(***************************************************************************)
C2_LicenseNoNonEmpty ==
  pc = "done" => \A k \in 1..Len(records) : records[k].license_no # ""

(***************************************************************************)
(* C3.  Between two consecutive row tops s_i < s_j of a page, a content    *)
(* word of the address column with s_i + 5 <= top < s_j is appended, after *)
(* a space, to the address of row i and is no word of the address of row   *)
(* j.                                                                      *)
(***************************************************************************)
C3_ContinuationBelongsToRowAbove ==
  pc = "done" =>
    \A r \in Rows : \A k \in Content(r.p) :
      ( /\ ~r.last
        /\ r.top < r.next
        /\ InCol(Word(r.p, k), "address")
        /\ r.top + 5 <= Word(r.p, k).top
        /\ Word(r.p, k).top < r.next )
      => /\ find(RawAddress(r), " " \o Word(r.p, k).text) # 0
         /\ ~HasWord(records[Offset(r.p) + r.i + 1].address, Word(r.p, k).text)

(***************************************************************************)
(* C6.  The rows of a page do not overlap: a content word is gathered for  *)
(* at most one record, and its text is a word of the fields of at most one *)
(* record of the page.                                                     *)
(***************************************************************************)
C6_RowExtentsDisjoint ==
  pc = "done" =>
    \A p \in 1..Len(pdf) : \A k \in Content(p) :
      /\ Cardinality({i \in 1..RowCount(p) :
            \E j \in 1..Len(Gathered(p, i)) : Gathered(p, i)[j] = Word(p, k)}) <= 1
      /\ Cardinality({i \in 1..RowCount(p) :
            \E c \in FirstLineColumns :
              HasWord(records[Offset(p) + i][c], Word(p, k).text)}) <= 1

\* some order of the words ws that ascends in x0 joins to value
JoinsByAscendingX0(value, ws) ==
  \E f \in [1..Len(ws) -> 1..Len(ws)] :
    /\ \A a, b \in 1..Len(ws) : f[a] = f[b] => a = b
    /\ \A a \in 1..Len(ws) - 1 : ws[f[a]].x0 <= ws[f[a + 1]].x0
    /\ value = join(" ", [a \in 1..Len(ws) |-> ws[f[a]].text])

(***************************************************************************)
(* C7 as claimed.  For every record and column, the first-line words of    *)
(* the column are joined with single spaces by ascending x0, whatever      *)
(* their order in the token stream.                                        *)
(***************************************************************************)
C7_FirstLineJoinedByX0 ==
  pc = "done" =>
    \A r \in Rows :
      LET flr == FirstLineRecord(r)
      IN \A c \in FirstLineColumns : JoinsByAscendingX0(flr[c], FirstLineOf(r, c))

(***************************************************************************)
(* C7 as amended.  For every record and column, the first-line words of    *)
(* the column are joined with single spaces in the order they have in the  *)
(* page's token stream; the columns that no continuation word changes      *)
(* reach the emitted record so.                                            *)
(***************************************************************************)
C7_FirstLineJoinedInStreamOrder ==
  pc = "done" =>
    \A r \in Rows :
      LET flr == FirstLineRecord(r)
          rec == Rec(r)
      IN \A c \in FirstLineColumns :
           LET joined == join(" ", Texts(FirstLineOf(r, c)))
           IN flr[c] = joined /\ (c \in FixedColumns => rec[c] = joined)

\* a row with two first-line address words that the stream lists right to left
C7_Witness ==
  /\ pc = "done"
  /\ \E r \in Rows :
       LET ws == FirstLineOf(r, "address")
       IN /\ Len(ws) = 2
          /\ ws[1].x0 > ws[2].x0
          /\ Rec(r).address = ws[1].text \o " " \o ws[2].text

(***************************************************************************)
(* C8.  A continuation word in the dba column changes dba only while dba   *)
(* is empty: a non-empty first-line dba is the final dba, and an empty one *)
(* becomes the text of the first dba continuation word, later ones being   *)
(* ignored.                                                                *)
(***************************************************************************)
C8_DbaOnlyWhileEmpty ==
  pc = "done" =>
    \A r \in Rows :
      LET first == join(" ", Texts(FirstLineOf(r, "dba")))
          cont == ContinuationOf(r, "dba")
      IN Rec(r).dba
           = IF first # "" THEN first
             ELSE IF Len(cont) > 0 THEN cont[1].text
             ELSE ""

\* a row with no first-line dba and two dba continuation words
C8_Witness ==
  /\ pc = "done"
  /\ \E r \in Rows :
       LET cont == ContinuationOf(r, "dba")
       IN /\ Len(FirstLineOf(r, "dba")) = 0
          /\ Len(cont) = 2
          /\ cont[1].text # cont[2].text
          /\ Rec(r).dba = cont[1].text

(***************************************************************************)
(* Addresses, read off the string by position.                             *)
(***************************************************************************)
\* the greatest element of a non-empty set of integers
Greatest(S) == CHOOSE x \in S : \A y \in S : y <= x

AllSpace(s) == \A i \in 1..Len(s) : IsSpace(Ch(s, i))

\* five digits, or five digits, "-" and four digits
IsZip(z) ==
  \/ Len(z) = 5 /\ AllDigits(z)
  \/ Len(z) = 10 /\ AllDigits(Sub(z, 1, 5)) /\ Ch(z, 6) = "-" /\ AllDigits(Sub(z, 7, 10))

RECURSIVE SpacesBefore(_, _)
\* the number of whitespace characters of s that end at position e
SpacesBefore(s, e) ==
  IF e >= 1 /\ IsSpace(Ch(s, e)) THEN 1 + SpacesBefore(s, e - 1) ELSE 0

\* the reading of the end of a whose zip has n characters; at is the position
\* of the first of the two characters before the whitespace before the zip
EndOf(a, n) ==
  LET g == SpacesBefore(a, Len(a) - n)
  IN [state |-> Sub(a, Len(a) - n - g - 1, Len(a) - n - g),
      zip |-> Sub(a, Len(a) - n + 1, Len(a)),
      gap |-> g,
      at |-> Len(a) - n - g - 1]

\* the ways a ends in whitespace, two capitals, whitespace and a zip
Anchors(a) ==
  { x \in {EndOf(a, 5), EndOf(a, 10)} :
      /\ IsZip(x.zip)
      /\ x.gap >= 1
      /\ x.at >= 2
      /\ IsUpper(Ch(x.state, 1)) /\ IsUpper(Ch(x.state, 2))
      /\ IsSpace(Ch(a, x.at - 1)) }

\* the same, a final line break aside (the pattern's $ lets one pass)
AnchorsFound(a) ==
  IF Ch(a, Len(a)) = "\n" THEN Anchors(Sub(a, 1, Len(a) - 1)) ELSE Anchors(a)

\* the street+city span: what precedes the state, trimmed
Span(a, x) == strip(Sub(a, 1, x.at - 1))

(***************************************************************************)
(* C4.  An address that ends in whitespace, two capitals, whitespace and a *)
(* zip of 5 or 5+4 digits gets exactly those two letters as state and that *)
(* zip as zip, whatever strategy finds street and city.                    *)
(***************************************************************************)
C4_StateAndZip ==
  pc = "done" =>
    \A x \in Anchors(address) : result.state = x.state /\ result.zip = x.zip

\* a 5+4 zip behind a span that the PO Box strategy splits
C4_Witness ==
  /\ pc = "done"
  /\ \E x \in Anchors(address) :
       /\ Len(x.zip) = 10
       /\ box_pattern(Span(address, x)).start # 0
       /\ result.zip = x.zip /\ result.city # ""

(***************************************************************************)
(* C5.  The empty address gives four empty parts; a non-empty address that *)
(* has no state and zip at its end gives itself, unchanged, as street and  *)
(* empty city, state and zip.                                              *)
(***************************************************************************)
C5_MalformedAddress ==
  pc = "done" =>
    /\ address = "" =>
         result = [street |-> "", city |-> "", state |-> "", zip |-> ""]
    /\ (address # "" /\ AnchorsFound(address) = {}) =>
         result = [street |-> address, city |-> "", state |-> "", zip |-> ""]

\* an address without state and zip that begins with a space and holds words
C5_Witness ==
  /\ pc = "done"
  /\ AnchorsFound(address) = {}
  /\ IsSpace(Ch(address, 1))
  /\ Len(split(address)) >= 2
  /\ result.street = address

\* word i of words is marked by the scan: it is a street suffix, or a unit
\* designator behind a unit word
Marked(words, i) ==
  \/ rstrip_punct(lower(words[i])) \in STREET_SUFFIXES
  \/ /\ i > 1
     /\ rstrip_punct(lower(words[i - 1])) \in UNIT_WORDS
     /\ IsUnitDesignator(words[i])

\* the last marked position, 0 if none is marked
Boundary(words) ==
  LET M == {i \in 1..Len(words) : Marked(words, i)}
  IN IF M = {} THEN 0 ELSE Greatest(M)

\* the span is left to the suffix scan: no mail-routing marker, no PO Box
IsDefaultCase(span) == attn_mc_match(span) = 0 /\ box_pattern(span).start = 0

(***************************************************************************)
(* C9.  In the default case (state and zip found, no mail-routing marker,  *)
(* no PO Box) the boundary is the last marked word.  A boundary before the *)
(* last word: street is the words up to it, city the words after it.  No   *)
(* boundary: street is all words but the last and city the last word; of a *)
(* single word, street is empty and city is the word.                      *)
(***************************************************************************)
C9_SuffixScan ==
  pc = "done" =>
    \A x \in AnchorsFound(address) :
      LET span == Span(address, x)
          words == split(span)
          n == Len(words)
          b == Boundary(words)
      IN IsDefaultCase(span) =>
           /\ (b >= 1 /\ b < n) =>
                /\ result.street = join(" ", SubSeq(words, 1, b))
                /\ result.city = join(" ", SubSeq(words, b + 1, n))
           /\ (b = 0 /\ n > 1) =>
                /\ result.street = join(" ", SubSeq(words, 1, n - 1))
                /\ result.city = words[n]
           /\ (b = 0 /\ n = 1) =>
                /\ result.street = ""
                /\ result.city = words[1]

\* two marks, the later one a unit designator, and a city behind them
C9_Witness ==
  /\ pc = "done"
  /\ \E x \in AnchorsFound(address) :
       LET span == Span(address, x)
           words == split(span)
           b == Boundary(words)
       IN /\ IsDefaultCase(span)
          /\ b >= 2 /\ b < Len(words)
          /\ Marked(words, b - 1)
          /\ rstrip_punct(lower(words[b])) \notin STREET_SUFFIXES
          /\ result.city = words[Len(words)]

\* a mail-routing marker begins at position i of the span, at the start of a
\* word: "ATTN" or "MC" and a digit, in any case
MarkerAt(span, i) ==
  /\ i = 1 \/ IsSpace(Ch(span, i - 1))
  /\ \/ lower(Sub(span, i, i + 3)) = "attn"
     \/ /\ lower(Sub(span, i, i + 1)) = "mc"
        /\ IsDigit(Ch(span, i + 2 + WsRun(span, i + 2)))

\* the last simple capitalized word, else the last word
CityOfMailRouting(words) ==
  LET caps == {j \in 1..Len(words) : IsCapitalized(words[j])}
  IN IF caps = {} THEN words[Len(words)] ELSE words[Greatest(caps)]

(***************************************************************************)
(* C10 as claimed.  Whenever the span holds a mail-routing marker at any   *)
(* position, the result is the mail-routing one: street is what precedes   *)
(* the marker, city is the last simple capitalized word of the span, or    *)
(* its last word if there is none.                                         *)
(***************************************************************************)
C10_MailRoutingAnywhere ==
  pc = "done" =>
    \A x \in AnchorsFound(address) :
      LET span == Span(address, x)
          M == {i \in 1..Len(span) : MarkerAt(span, i)}
      IN M # {} =>
           /\ result.street = strip(Sub(span, 1, Least(M) - 1))
           /\ result.city = CityOfMailRouting(split(span))

(***************************************************************************)
(* C10 as amended.  Whenever the span holds a mail-routing marker behind   *)
(* whitespace (so not at the very start of the span), the result is the    *)
(* mail-routing one, even if the span also matches the PO Box pattern or   *)
(* holds street suffixes: street is what precedes the first such marker,   *)
(* trimmed; city is the last simple capitalized word of the span, or its   *)
(* last word if there is none.                                             *)
(***************************************************************************)
C10_MailRoutingBehindSpace ==
  pc = "done" =>
    \A x \in AnchorsFound(address) :
      LET span == Span(address, x)
          M == {i \in 2..Len(span) : MarkerAt(span, i)}
      IN M # {} =>
           /\ result.street = strip(Sub(span, 1, Least(M) - 1))
           /\ result.city = CityOfMailRouting(split(span))

\* a marker behind whitespace in a span that also matches the PO Box pattern
C10_Witness ==
  /\ pc = "done"
  /\ \E x \in AnchorsFound(address) :
       LET span == Span(address, x)
       IN /\ \E i \in 2..Len(span) : MarkerAt(span, i)
          /\ box_pattern(span).start # 0
          /\ result.street # ""
          /\ result.city = CityOfMailRouting(split(span))

====
